---------------------------- MODULE Spec2Model ----------------------------
(***************************************************************************)
(* Model of scripts/parallel_upload_to_orion.py: the availability probe,   *)
(* the enumeration of the JSON directory, the thread pool that runs        *)
(* upload_entity for every file, the retry loop of upload_entity, and the  *)
(* tallying loop of parallel_upload.  The remote store (Orion-LD) and the  *)
(* file system are the environment.                                        *)
(***************************************************************************)
EXTENDS Integers, Sequences, FiniteSets, TLC

(***************************************************************************)
(* Bounds of the model.                                                    *)
(***************************************************************************)
NumFiles == 2      \* distinct file names that can exist
MaxLen == 2        \* longest task list handed to parallel_upload
MaxWorkers == 2    \* largest --workers value
MaxBudget == 3     \* largest retry budget given to upload_entity directly
MaxRuns == 2       \* number of times the script is started
MaxFailures == 6   \* longest list of corrupt documents
MaxListed == 3     \* most files in the directory that get_json_files slices

\* the default retry budget, the one parallel_upload runs every task with
MAX_RETRIES == 2

Files == 1..NumFiles

(***************************************************************************)
(* Environment: file contents and HTTP responses.                          *)
(***************************************************************************)
\* What open()/json.load() meet for a file: a JSON object, an empty JSON
\* value ({} or [] or 0 ...), or an unreadable file / malformed JSON.
ContentKinds == {"object", "empty", "broken"}

\* Outcome of urllib.request.urlopen: an HTTP status, or a non-HTTP error
\* (URLError, connection reset, timeout) with status 0.
Http(s) == [kind |-> "http", status |-> s]
URLError == [kind |-> "urlerror", status |-> 0]
TransientFaults == {Http(503), URLError}

NoMsg == <<"", 0>>
Msg(text, code) == <<text, code>>
None == [file_path |-> 0, success |-> FALSE, message |-> NoMsg]

VARIABLES
    mainpc,               \* position of main() / parallel_upload()
    run,                  \* how many times the script has been started
    exit_code,            \* process exit status, -1 while running
    available,            \* verdict of check_orion_availability
    probed,               \* what the GET /version of this run met
    gets,                 \* GET /version requests issued in this run
    listed,               \* get_json_files has been called in this run
    directory,            \* *.json files present in JSON_DIR
    content,              \* what each file holds
    store,                \* entity ids the remote store holds
    all_existed,          \* every document was in the store when the run began
    max_workers,          \* args.workers
    retries,              \* retry budget of upload_entity
    start_idx,            \* args.start: <<>> for None, <<i>> for the integer i
    end_idx,              \* args.end, likewise
    max_files,            \* args.max, likewise
    file_list,            \* the task list
    pc,                   \* per task: queued / request / sleep / returned / consumed
    attempt,              \* per task: loop variable of upload_entity
    posts,                \* per task: create-requests issued
    sleeps,               \* per task: time.sleep(0.5) calls
    responses,            \* per task: outcomes of its create-requests, in order
    result,               \* per task: value returned by upload_entity
    tallied,              \* per task: times the tallying loop handled it
    success_count,
    already_exists_count,
    error_count,
    error_details,        \* results["error"]
    logged,               \* failures written by logger.error in the loop
    report,               \* value returned by parallel_upload
    elapsed_time,         \* end_time - start_time, in whole seconds
    sample,               \* the "Sample errors" lines of the summary
    rate                  \* the "Average rate" printed, in hundredths

vars == <<mainpc, run, exit_code, available, gets, listed, directory, content,
          store, all_existed, max_workers, retries, file_list, pc, attempt,
          posts, sleeps, responses, result, tallied, success_count,
          already_exists_count, error_count, error_details, report,
          elapsed_time, probed, logged, sample, rate, start_idx, end_idx,
          max_files>>

envVars == <<directory, content, max_workers, retries, start_idx, end_idx,
             max_files>>
taskVars == <<pc, attempt, posts, sleeps, responses, result>>
tallyVars == <<tallied, success_count, already_exists_count, error_count,
               error_details, logged>>
mainVars == <<run, exit_code, available, gets, listed, all_existed,
              elapsed_time, probed, sample, rate>>

Tasks == DOMAIN file_list
NoReport == [total |-> -1, success |-> 0, already_exists |-> 0, errors |-> 0,
             error_details |-> <<>>]

Range(s) == {s[i] : i \in DOMAIN s}


\* sorted(glob.glob(...)): the listing in ascending order
Sorted(S) ==
    CHOOSE s \in [1..Cardinality(S) -> S] :
        /\ Range(s) = S
        /\ \A i, j \in 1..Cardinality(S) : i < j => s[i] < s[j]

(***************************************************************************)
(* get_json_files.  An optional argument is <<>> when it is None and <<i>>  *)
(* when it is the integer i.                                               *)
(***************************************************************************)
NotGiven == <<>>

\* the position a slice bound i stands for in a list of n items: a negative
\* bound counts from the end, and a bound outside the list is the nearer end
Clip(i, n) ==
    IF i < 0
    THEN (IF i + n < 0 THEN 0 ELSE i + n)
    ELSE (IF i > n THEN n ELSE i)

\* s[lo:hi]
Slice(s, lo, hi) == SubSeq(s, Clip(lo, Len(s)) + 1, Clip(hi, Len(s)))

get_json_files(all_files, start, end, max) ==
    IF start # NotGiven /\ end # NotGiven
    THEN Slice(all_files, start[1], end[1])
    ELSE IF max # NotGiven /\ max[1] # 0
    THEN Slice(all_files, 0, max[1])
    ELSE all_files

(***************************************************************************)
(* check_orion_availability: one GET <base>/version.  The outcome is what  *)
(* urlopen and the body decoding meet.                                     *)
(***************************************************************************)
ProbeOutcomes == {"200 json", "200 not json", "other status", "network error"}

\* mutant: True is returned on status 200 before the body is decoded
check_status_only(outcome) == outcome \in {"200 json", "200 not json"}

check_orion_availability(outcome) == outcome = "200 json"

(***************************************************************************)
(* load_json_file and the test `if not entity_data` of upload_entity.      *)
(***************************************************************************)
load_json_file(f) ==
    CASE content[f] = "object" -> "entity"
      [] content[f] = "empty" -> "empty"
      [] OTHER -> "None"

\* mutant: the test `if not entity_data` is missing
FalsyNever(entity_data) == FALSE

Falsy(entity_data) == entity_data \in {"None", "empty"}

\* os.path.basename(file_path).replace(".json", "")
entity_id(f) == f

(***************************************************************************)
(* The remote store: it answers a create-request for an id it holds with   *)
(* 409, creates (201) or rejects (400) or answers another 2xx for an id it *)
(* does not hold, and may fail transiently (5xx, connection error) on any  *)
(* request.                                                                *)
(***************************************************************************)
SinkResponses(f) ==
    IF f \in store
    THEN {Http(409)} \cup TransientFaults
    ELSE {Http(201), Http(200), Http(400)} \cup TransientFaults

Responses == {Http(200), Http(201), Http(400), Http(409)} \cup TransientFaults

(***************************************************************************)
(* One pass of the body of `for attempt in range(retries)`, after urlopen  *)
(* produced r: the tuple upload_entity returns, or "retry" when it sleeps  *)
(* and continues.                                                          *)
(***************************************************************************)
Terminal(f, ok, m) ==
    [retry |-> FALSE, value |-> [file_path |-> f, success |-> ok, message |-> m]]
Retry == [retry |-> TRUE, value |-> None]

\* mutant: a conflict is handled like any other HTTP error
ClassifyConflictAsError(f, r, att, budget) ==
    IF r.kind = "http" /\ r.status >= 200 /\ r.status < 300
    THEN IF r.status = 201
         THEN Terminal(f, TRUE, Msg("Created", 0))
         ELSE Terminal(f, FALSE, Msg("Unexpected status code", r.status))
    ELSE IF r.kind = "http"
    THEN IF r.status >= 500 /\ att < budget - 1
         THEN Retry
         ELSE Terminal(f, FALSE, Msg("HTTP error", r.status))
    ELSE IF att < budget - 1
         THEN Retry
         ELSE Terminal(f, FALSE, Msg("Request error", 0))

\* mutant: every HTTP error from 400 up is retried, not only 5xx
ClassifyRetryFrom400(f, r, att, budget) ==
    IF r.kind = "http" /\ r.status >= 200 /\ r.status < 300
    THEN IF r.status = 201
         THEN Terminal(f, TRUE, Msg("Created", 0))
         ELSE Terminal(f, FALSE, Msg("Unexpected status code", r.status))
    ELSE IF r.kind = "http"
    THEN IF r.status = 409
         THEN Terminal(f, TRUE, Msg("Already exists", 0))
         ELSE IF r.status >= 400 /\ att < budget - 1
         THEN Retry
         ELSE Terminal(f, FALSE, Msg("HTTP error", r.status))
    ELSE IF att < budget - 1
         THEN Retry
         ELSE Terminal(f, FALSE, Msg("Request error", 0))

\* mutant: the last retry is never made (attempt < retries - 2)
ClassifyGivesUpEarly(f, r, att, budget) ==
    IF r.kind = "http" /\ r.status >= 200 /\ r.status < 300
    THEN IF r.status = 201
         THEN Terminal(f, TRUE, Msg("Created", 0))
         ELSE Terminal(f, FALSE, Msg("Unexpected status code", r.status))
    ELSE IF r.kind = "http"
    THEN IF r.status = 409
         THEN Terminal(f, TRUE, Msg("Already exists", 0))
         ELSE IF r.status >= 500 /\ att < budget - 2
         THEN Retry
         ELSE Terminal(f, FALSE, Msg("HTTP error", r.status))
    ELSE IF att < budget - 2
         THEN Retry
         ELSE Terminal(f, FALSE, Msg("Request error", 0))

Classify(f, r, att, budget) ==
    IF r.kind = "http" /\ r.status >= 200 /\ r.status < 300
    THEN \* urlopen returned a response object
         IF r.status = 201
         THEN Terminal(f, TRUE, Msg("Created", 0))
         ELSE Terminal(f, FALSE, Msg("Unexpected status code", r.status))
    ELSE IF r.kind = "http"
    THEN \* urllib.error.HTTPError
         IF r.status = 409
         THEN Terminal(f, TRUE, Msg("Already exists", 0))
         ELSE IF r.status >= 500 /\ att < budget - 1
         THEN Retry
         ELSE Terminal(f, FALSE, Msg("HTTP error", r.status))
    ELSE \* any other exception
         IF att < budget - 1
         THEN Retry
         ELSE Terminal(f, FALSE, Msg("Request error", 0))

(***************************************************************************)
(* The thread pool: a task holds a worker from the moment it is taken off  *)
(* the queue until upload_entity returns.                                  *)
(***************************************************************************)
\* mutant: a task gives its worker back while it sleeps between attempts
RunningWithoutSleepers == {t \in DOMAIN pc : pc[t] = "request"}

Running == {t \in DOMAIN pc : pc[t] \in {"request", "sleep"}}
InFlight == {t \in DOMAIN pc : pc[t] = "request"}

\* mutant: every submitted task gets a thread of its own
WorkerFreeAlways == TRUE

\* mutant: the pool keeps one thread back
WorkerFreeOneShort == Cardinality(Running) < max_workers - 1

WorkerFree == Cardinality(Running) < max_workers

\* the work queue is first in, first out
\* worker threads run from the first submit until the executor has shut
\* down, which is also the case while an exception unwinds the `with` block
PoolOpen == mainpc \in {"collect", "interrupted"}

HeadOfQueue(t) == pc[t] = "queued" /\ \A u \in Tasks : u < t => pc[u] # "queued"

(***************************************************************************)
(* parallel_upload                                                         *)
(***************************************************************************)
\* lines 140-156: the counters, the executor, executor.submit for each file.
\* The loop over as_completed starts only when every file is submitted, and
\* the queue keeps the submission order, so the submissions are one step.
Submit ==
    /\ mainpc = "upload"
    /\ mainpc' = "collect"
    /\ pc' = [t \in Tasks |-> "queued"]
    /\ attempt' = [t \in Tasks |-> 0]
    /\ posts' = [t \in Tasks |-> 0]
    /\ sleeps' = [t \in Tasks |-> 0]
    /\ responses' = [t \in Tasks |-> <<>>]
    /\ result' = [t \in Tasks |-> None]
    /\ tallied' = [t \in Tasks |-> 0]
    /\ success_count' = 0
    /\ already_exists_count' = 0
    /\ error_count' = 0
    /\ error_details' = <<>>
    /\ logged' = <<>>
    /\ UNCHANGED <<mainVars, envVars, store, file_list, report>>

\* a worker takes the next task: upload_entity lines 65-93, up to the first
\* urlopen call
Start(t) ==
    /\ PoolOpen
    /\ t \in Tasks
    /\ HeadOfQueue(t)
    /\ WorkerFree
    /\ LET f == file_list[t] IN
       IF Falsy(load_json_file(f))
       THEN /\ result' = [result EXCEPT ![t] =
                   [file_path |-> f, success |-> FALSE,
                    message |-> Msg("Failed to load entity data", 0)]]
            /\ pc' = [pc EXCEPT ![t] = "returned"]
            /\ UNCHANGED posts
       ELSE IF retries > 0
       THEN /\ pc' = [pc EXCEPT ![t] = "request"]
            /\ posts' = [posts EXCEPT ![t] = @ + 1]
            /\ UNCHANGED result
       ELSE /\ result' = [result EXCEPT ![t] =
                   [file_path |-> f, success |-> FALSE,
                    message |-> Msg("Max retries exceeded", 0)]]
            /\ pc' = [pc EXCEPT ![t] = "returned"]
            /\ UNCHANGED posts
    /\ UNCHANGED <<mainpc, mainVars, envVars, store, file_list, attempt, sleeps,
                   responses, tallyVars, report>>

\* urlopen returns or raises: upload_entity lines 93-119
\* mutant: the worker thread counts its own outcome, without a lock, and the
\* consumer counts it again
RespondCounts(t, r) ==
    /\ PoolOpen
    /\ t \in Tasks
    /\ pc[t] = "request"
    /\ r \in SinkResponses(file_list[t])
    /\ store' = IF r = Http(201) THEN store \cup {file_list[t]} ELSE store
    /\ responses' = [responses EXCEPT ![t] = Append(@, r)]
    /\ LET c == Classify(file_list[t], r, attempt[t], retries) IN
       IF c.retry
       THEN /\ pc' = [pc EXCEPT ![t] = "sleep"]
            /\ sleeps' = [sleeps EXCEPT ![t] = @ + 1]
            /\ UNCHANGED <<result, success_count>>
       ELSE /\ pc' = [pc EXCEPT ![t] = "returned"]
            /\ result' = [result EXCEPT ![t] = c.value]
            /\ success_count' = IF c.value.success
                                THEN success_count + 1
                                ELSE success_count
            /\ UNCHANGED sleeps
    /\ UNCHANGED <<mainpc, mainVars, envVars, file_list, attempt, posts,
                   tallied, already_exists_count, error_count, error_details,
                   logged, report>>

Respond(t, r) ==
    /\ PoolOpen
    /\ t \in Tasks
    /\ pc[t] = "request"
    /\ r \in SinkResponses(file_list[t])
    /\ store' = IF r = Http(201) THEN store \cup {file_list[t]} ELSE store
    /\ responses' = [responses EXCEPT ![t] = Append(@, r)]
    /\ LET c == Classify(file_list[t], r, attempt[t], retries) IN
       IF c.retry
       THEN /\ pc' = [pc EXCEPT ![t] = "sleep"]
            /\ sleeps' = [sleeps EXCEPT ![t] = @ + 1]
            /\ UNCHANGED result
       ELSE /\ pc' = [pc EXCEPT ![t] = "returned"]
            /\ result' = [result EXCEPT ![t] = c.value]
            /\ UNCHANGED sleeps
    /\ UNCHANGED <<mainpc, mainVars, envVars, file_list, attempt, posts,
                   tallyVars, report>>

\* time.sleep(0.5) is over; `continue` starts the next attempt and sends
\* its request
\* mutant: the attempt counter is shared by every task
WakeUpSharedAttempt(t) ==
    /\ PoolOpen
    /\ t \in Tasks
    /\ pc[t] = "sleep"
    /\ attempt' = [u \in Tasks |-> attempt[u] + 1]
    /\ IF attempt[t] + 1 < retries
       THEN /\ pc' = [pc EXCEPT ![t] = "request"]
            /\ posts' = [posts EXCEPT ![t] = @ + 1]
            /\ UNCHANGED result
       ELSE /\ pc' = [pc EXCEPT ![t] = "returned"]
            /\ result' = [result EXCEPT ![t] =
                   [file_path |-> file_list[t], success |-> FALSE,
                    message |-> Msg("Max retries exceeded", 0)]]
            /\ UNCHANGED posts
    /\ UNCHANGED <<mainpc, mainVars, envVars, store, file_list, sleeps,
                   responses, tallyVars, report>>

WakeUp(t) ==
    /\ PoolOpen
    /\ t \in Tasks
    /\ pc[t] = "sleep"
    /\ attempt' = [attempt EXCEPT ![t] = @ + 1]
    /\ IF attempt[t] + 1 < retries
       THEN /\ pc' = [pc EXCEPT ![t] = "request"]
            /\ posts' = [posts EXCEPT ![t] = @ + 1]
            /\ UNCHANGED result
       ELSE /\ pc' = [pc EXCEPT ![t] = "returned"]
            /\ result' = [result EXCEPT ![t] =
                   [file_path |-> file_list[t], success |-> FALSE,
                    message |-> Msg("Max retries exceeded", 0)]]
            /\ UNCHANGED posts
    /\ UNCHANGED <<mainpc, mainVars, envVars, store, file_list, sleeps,
                   responses, tallyVars, report>>

\* mutant: a success that is not "Created" is not counted at all
TallyDropsExisting(t) ==
    /\ tallied' = [tallied EXCEPT ![t] = @ + 1]
    /\ IF result[t].success
       THEN IF result[t].message = Msg("Created", 0)
            THEN /\ success_count' = success_count + 1
                 /\ UNCHANGED <<already_exists_count, error_count, error_details, logged>>
            ELSE UNCHANGED <<success_count, already_exists_count, error_count,
                             error_details, logged>>
       ELSE /\ error_count' = error_count + 1
            /\ error_details' =
                   Append(error_details,
                          <<entity_id(result[t].file_path), result[t].message>>)
            /\ logged' =
                   Append(logged,
                          <<entity_id(result[t].file_path), result[t].message>>)
            /\ UNCHANGED <<success_count, already_exists_count>>

\* mutant: every success is counted as created, whatever its message
TallyAllSuccessCreated(t) ==
    /\ tallied' = [tallied EXCEPT ![t] = @ + 1]
    /\ IF result[t].success
       THEN /\ success_count' = success_count + 1
            /\ UNCHANGED <<already_exists_count, error_count, error_details, logged>>
       ELSE /\ error_count' = error_count + 1
            /\ error_details' =
                   Append(error_details,
                          <<entity_id(result[t].file_path), result[t].message>>)
            /\ logged' =
                   Append(logged,
                          <<entity_id(result[t].file_path), result[t].message>>)
            /\ UNCHANGED <<success_count, already_exists_count>>

\* mutant: once a failure has been seen, later successes are not counted
TallyBlindAfterError(t) ==
    /\ tallied' = [tallied EXCEPT ![t] = @ + 1]
    /\ IF result[t].success
       THEN IF error_count > 0
            THEN UNCHANGED <<success_count, already_exists_count, error_count,
                             error_details, logged>>
            ELSE IF result[t].message = Msg("Created", 0)
            THEN /\ success_count' = success_count + 1
                 /\ UNCHANGED <<already_exists_count, error_count, error_details, logged>>
            ELSE /\ already_exists_count' = already_exists_count + 1
                 /\ UNCHANGED <<success_count, error_count, error_details, logged>>
       ELSE /\ error_count' = error_count + 1
            /\ error_details' =
                   Append(error_details,
                          <<entity_id(result[t].file_path), result[t].message>>)
            /\ logged' =
                   Append(logged,
                          <<entity_id(result[t].file_path), result[t].message>>)
            /\ UNCHANGED <<success_count, already_exists_count>>

\* one pass of the loop over as_completed: lines 159-175
Tally(t) ==
    /\ tallied' = [tallied EXCEPT ![t] = @ + 1]
    /\ IF result[t].success
       THEN IF result[t].message = Msg("Created", 0)
            THEN /\ success_count' = success_count + 1
                 /\ UNCHANGED <<already_exists_count, error_count, error_details, logged>>
            ELSE /\ already_exists_count' = already_exists_count + 1
                 /\ UNCHANGED <<success_count, error_count, error_details, logged>>
       ELSE /\ error_count' = error_count + 1
            /\ error_details' =
                   Append(error_details,
                          <<entity_id(result[t].file_path), result[t].message>>)
            /\ logged' =
                   Append(logged,
                          <<entity_id(result[t].file_path), result[t].message>>)
            /\ UNCHANGED <<success_count, already_exists_count>>

\* mutant: future.result() raises for a failed task and the exception leaves
\* parallel_upload
ConsumeRaises(t) ==
    /\ mainpc = "collect"
    /\ t \in Tasks
    /\ pc[t] = "returned"
    /\ IF result[t].success
       THEN /\ pc' = [pc EXCEPT ![t] = "consumed"]
            /\ Tally(t)
            /\ UNCHANGED <<mainpc, exit_code>>
       ELSE /\ mainpc' = "exit"
            /\ exit_code' = 1
            /\ UNCHANGED <<pc, tallyVars>>
    /\ UNCHANGED <<run, available, gets, listed, all_existed, elapsed_time,
                   probed, sample, rate, envVars, store, file_list, attempt,
                   posts, sleeps, responses, result, report>>

Consume(t) ==
    /\ mainpc = "collect"
    /\ t \in Tasks
    /\ pc[t] = "returned"
    /\ pc' = [pc EXCEPT ![t] = "consumed"]
    /\ Tally(t)
    /\ UNCHANGED <<mainpc, mainVars, envVars, store, file_list, attempt, posts,
                   sleeps, responses, result, report>>

\* as_completed is exhausted, the executor shuts down: lines 177-183
Return ==
    /\ mainpc = "collect"
    /\ \A t \in Tasks : pc[t] = "consumed"
    /\ report' = [total |-> Len(file_list),
                  success |-> success_count,
                  already_exists |-> already_exists_count,
                  errors |-> error_count,
                  error_details |-> error_details]
    /\ mainpc' = "report"
    /\ UNCHANGED <<mainVars, envVars, store, file_list, taskVars, tallyVars>>

(***************************************************************************)
(* main                                                                    *)
(***************************************************************************)
\* mutant: the verdict is logged and the run goes on
ProbeIgnored(outcome) ==
    /\ mainpc = "probe"
    /\ gets' = gets + 1
    /\ available' = check_orion_availability(outcome)
    /\ probed' = outcome
    /\ mainpc' = "enumerate"
    /\ UNCHANGED <<exit_code, run, listed, all_existed, elapsed_time, sample,
                   rate, envVars, store, file_list, taskVars, tallyVars, report>>

\* lines 202-205
Probe(outcome) ==
    /\ mainpc = "probe"
    /\ gets' = gets + 1
    /\ available' = check_orion_availability(outcome)
    /\ IF check_orion_availability(outcome)
       THEN mainpc' = "enumerate" /\ UNCHANGED exit_code
       ELSE mainpc' = "exit" /\ exit_code' = 1
    /\ probed' = outcome
    /\ UNCHANGED <<run, listed, all_existed, elapsed_time, sample, rate,
                   envVars, store, file_list, taskVars, tallyVars, report>>

\* lines 207-211
Enumerate ==
    /\ mainpc = "enumerate"
    /\ listed' = TRUE
    /\ file_list' = get_json_files(Sorted(directory), start_idx, end_idx, max_files)
    /\ IF file_list' = <<>>
       THEN mainpc' = "exit" /\ exit_code' = 1
       ELSE mainpc' = "upload" /\ UNCHANGED exit_code
    /\ UNCHANGED <<run, available, gets, all_existed, elapsed_time, probed,
                   sample, rate, envVars, store, taskVars, tallyVars, report>>

\* the slice error_details[:5] of line 231
SAMPLE_SIZE == 5

Min(a, b) == IF a < b THEN a ELSE b

\* lines 219-238: the summary.  The sample errors are printed first; then
\* results['total'] / elapsed_time raises ZeroDivisionError when the clock
\* did not advance, and the uncaught exception ends the process with
\* status 1.
\* mutant: the slice [:5] is missing, every error is shown
SummaryShowsAll(elapsed) ==
    /\ mainpc = "report"
    /\ elapsed_time' = elapsed
    /\ sample' = IF report.errors > 0 THEN report.error_details ELSE <<>>
    /\ mainpc' = "exit"
    /\ IF elapsed = 0
       THEN exit_code' = 1 /\ UNCHANGED rate
       ELSE exit_code' = 0 /\ rate' = (100 * report.total) \div elapsed
    /\ UNCHANGED <<run, available, gets, listed, all_existed, probed, envVars,
                   store, file_list, taskVars, tallyVars, report>>

Summary(elapsed) ==
    /\ mainpc = "report"
    /\ elapsed_time' = elapsed
    /\ sample' = IF report.errors > 0
                 THEN SubSeq(report.error_details, 1,
                             Min(SAMPLE_SIZE, Len(report.error_details)))
                 ELSE <<>>
    /\ mainpc' = "exit"
    /\ IF elapsed = 0
       THEN exit_code' = 1 /\ UNCHANGED rate
       ELSE exit_code' = 0 /\ rate' = (100 * report.total) \div elapsed
    /\ UNCHANGED <<run, available, gets, listed, all_existed, probed, envVars,
                   store, file_list, taskVars, tallyVars, report>>

\* a KeyboardInterrupt reaches the main thread inside the loop over
\* as_completed (lines 159-175): the loop is left and the `with` block of
\* line 154 runs executor.shutdown(wait=True)
Interrupt ==
    /\ mainpc = "collect"
    /\ mainpc' = "interrupted"
    /\ UNCHANGED <<mainVars, envVars, store, file_list, taskVars, tallyVars,
                   report>>

\* shutdown(wait=True) returns when the queue is drained and every worker
\* has ended; the KeyboardInterrupt then leaves parallel_upload and main
\* without a report or a summary
Unwind ==
    /\ mainpc = "interrupted"
    /\ \A t \in Tasks : pc[t] \in {"returned", "consumed"}
    /\ mainpc' = "exit"
    /\ exit_code' = 130
    /\ UNCHANGED <<run, available, gets, listed, all_existed, elapsed_time,
                   probed, sample, rate, envVars, store, file_list, taskVars,
                   tallyVars, report>>

AllExist(dir) == \A f \in dir : f \in store /\ content[f] = "object"

\* the script is started again over the same directory and the same store
Rerun ==
    /\ mainpc = "exit"
    /\ run < MaxRuns
    /\ run' = run + 1
    /\ mainpc' = "probe"
    /\ exit_code' = -1
    /\ available' = FALSE
    /\ gets' = 0
    /\ listed' = FALSE
    /\ all_existed' = AllExist(directory)
    /\ elapsed_time' = -1
    /\ file_list' = <<>>
    /\ pc' = <<>>
    /\ attempt' = <<>>
    /\ posts' = <<>>
    /\ sleeps' = <<>>
    /\ responses' = <<>>
    /\ result' = <<>>
    /\ tallied' = <<>>
    /\ success_count' = 0
    /\ already_exists_count' = 0
    /\ error_count' = 0
    /\ error_details' = <<>>
    /\ logged' = <<>>
    /\ probed' = "none"
    /\ sample' = <<>>
    /\ rate' = -1
    /\ report' = NoReport
    /\ UNCHANGED <<envVars, store>>

(***************************************************************************)
(* Specifications                                                          *)
(***************************************************************************)
\* the environment of a run over the files `dir`, before any task exists
InitEnv(dir) ==
    /\ directory = dir
    /\ content \in [Files -> ContentKinds]
    /\ \A f \in Files \ dir : content[f] = "object"
    \* the store holds only entities uploaded from these files
    /\ store \in SUBSET {f \in dir : content[f] = "object"}
    /\ all_existed = AllExist(dir)
    /\ run = 1
    /\ exit_code = -1
    /\ elapsed_time = -1
    /\ gets = 0
    /\ listed = FALSE
    /\ success_count = 0
    /\ already_exists_count = 0
    /\ error_count = 0
    /\ error_details = <<>>
    /\ logged = <<>>
    /\ probed = "none"
    /\ sample = <<>>
    /\ rate = -1
    /\ report = NoReport
    \* the script is called without --start, --end and --max
    /\ start_idx = NotGiven
    /\ end_idx = NotGiven
    /\ max_files = NotGiven

NoTasks ==
    /\ pc = <<>>
    /\ attempt = <<>>
    /\ posts = <<>>
    /\ sleeps = <<>>
    /\ responses = <<>>
    /\ result = <<>>
    /\ tallied = <<>>

\* File names are interchangeable labels: a directory of k files is 1..k, and
\* a task list names its files in the order it first mentions them.
Directories == {1..k : k \in 0..NumFiles}

FirstMentions(l) ==
    \A i \in DOMAIN l :
        \/ l[i] = 1
        \/ \E j \in 1..(i - 1) : l[j] = l[i] - 1

\* the script is started: main(), which runs every task with the default
\* budget
Init ==
    /\ \E dir \in Directories : InitEnv(dir)
    /\ NoTasks
    /\ max_workers \in 1..MaxWorkers
    /\ retries = MAX_RETRIES
    /\ mainpc = "probe"
    /\ available = FALSE
    /\ file_list = <<>>

PoolNext ==
    \/ Submit
    \/ \E t \in Tasks : Start(t)
    \/ \E t \in Tasks, r \in Responses : Respond(t, r)
    \/ \E t \in Tasks : WakeUp(t)
    \/ \E t \in Tasks : Consume(t)
    \/ Return

\* end_time - start_time: the clock did not advance, or one or two seconds
Elapsed == {0, 1, 2}

Next ==
    \/ \E outcome \in ProbeOutcomes : Probe(outcome)
    \/ Enumerate
    \/ PoolNext
    \/ \E elapsed \in Elapsed : Summary(elapsed)
    \/ Rerun

Spec == Init /\ [][Next]_vars

\* parallel_upload called on its own with any list of files, duplicates and
\* the empty list included
FileLists == {l \in UNION {[1..n -> Files] : n \in 0..MaxLen} : FirstMentions(l)}

InitPool ==
    /\ file_list \in FileLists
    /\ InitEnv(Range(file_list))
    /\ NoTasks
    /\ max_workers \in 1..MaxWorkers
    /\ retries = MAX_RETRIES
    /\ mainpc = "upload"
    /\ available = TRUE

SpecPool == InitPool /\ [][PoolNext]_vars

\* parallel_upload with a user interrupt at any moment of the loop
CancelNext ==
    \/ PoolNext
    \/ Interrupt
    \/ Unwind

SpecCancel == InitPool /\ [][CancelNext]_vars

\* upload_entity called on its own, on one file, with any retry budget
InitEntity ==
    /\ file_list \in [1..1 -> Files]
    /\ InitEnv(Range(file_list))
    /\ max_workers = 1
    /\ retries \in 0..MaxBudget
    /\ mainpc = "collect"
    /\ available = TRUE
    /\ pc = <<"queued">>
    /\ attempt = <<0>>
    /\ posts = <<0>>
    /\ sleeps = <<0>>
    /\ responses = << <<>> >>
    /\ result = <<None>>
    /\ tallied = <<0>>

EntityNext ==
    \/ \E t \in Tasks : Start(t)
    \/ \E t \in Tasks, r \in Responses : Respond(t, r)
    \/ \E t \in Tasks : WakeUp(t)

SpecEntity == InitEntity /\ [][EntityNext]_vars

\* parallel_upload and the summary of main over up to MaxFailures documents
\* none of which holds a JSON object, so that every task fails: the k-th
\* task is file ((k - 1) mod NumFiles) + 1
CorruptList(n) == [k \in 1..n |-> ((k - 1) % NumFiles) + 1]

InitCorrupt ==
    /\ \E n \in 0..MaxFailures : file_list = CorruptList(n)
    /\ InitEnv(Range(file_list))
    /\ \A f \in Range(file_list) : content[f] # "object"
    /\ NoTasks
    /\ max_workers = 1
    /\ retries = MAX_RETRIES
    /\ mainpc = "upload"
    /\ available = TRUE

CorruptNext ==
    \/ Submit
    \/ \E t \in Tasks : Start(t)
    \/ \E t \in Tasks : Consume(t)
    \/ Return
    \/ \E elapsed \in Elapsed : Summary(elapsed)

SpecCorrupt == InitCorrupt /\ [][CorruptNext]_vars

\* parallel_upload when threads are scheduled and every request is answered
\* or fails: a step that stays possible is taken in the end
SpecPoolFair == InitPool /\ [][PoolNext]_vars /\ WF_vars(PoolNext)

\* the values argparse gives args.start, args.end and args.max: None, or an
\* integer, negative ones and ones beyond the listing included
ArgValues == {NotGiven} \cup {<<i>> : i \in (0 - (MaxListed + 1))..(MaxListed + 1)}

\* main at line 207, after a probe that succeeded, over a directory of up
\* to MaxListed documents and with any --start, --end and --max
InitFiles ==
    /\ directory \in {1..k : k \in 0..MaxListed}
    /\ start_idx \in ArgValues
    /\ end_idx \in ArgValues
    /\ max_files \in ArgValues
    /\ content = [f \in directory \cup Files |-> "object"]
    /\ store = {}
    /\ all_existed = (directory = {})
    /\ run = 1
    /\ exit_code = -1
    /\ elapsed_time = -1
    /\ gets = 1
    /\ probed = "200 json"
    /\ available = TRUE
    /\ listed = FALSE
    /\ success_count = 0
    /\ already_exists_count = 0
    /\ error_count = 0
    /\ error_details = <<>>
    /\ logged = <<>>
    /\ sample = <<>>
    /\ rate = -1
    /\ report = NoReport
    /\ NoTasks
    /\ max_workers = 1
    /\ retries = MAX_RETRIES
    /\ mainpc = "enumerate"
    /\ file_list = <<>>

FilesNext == Enumerate

SpecFiles == InitFiles /\ [][FilesNext]_vars

TypeOK ==
    /\ mainpc \in {"probe", "enumerate", "upload", "collect", "interrupted",
                  "report", "exit"}
    /\ run \in 1..MaxRuns
    /\ exit_code \in {-1, 0, 1, 130}
    /\ store \subseteq Files
    /\ \A t \in DOMAIN pc :
            /\ pc[t] \in {"queued", "request", "sleep", "returned", "consumed"}
            /\ attempt[t] \in 0..MaxBudget
            /\ posts[t] \in 0..MaxBudget

(***************************************************************************)
(* Properties                                                              *)
(***************************************************************************)
Done(t) == pc[t] \in {"returned", "consumed"}
Answered(t) == responses[t] # <<>>
EveryAnswer(t, r) == \A i \in DOMAIN responses[t] : responses[t][i] = r
Is5xx(r) == r.kind = "http" /\ r.status >= 500
Is4xxNot409(r) == r.kind = "http" /\ r.status >= 400 /\ r.status < 500 /\ r.status # 409
Failures == {t \in DOMAIN result : Done(t) /\ ~result[t].success}
Conflicts == {t \in DOMAIN result : Done(t) /\ result[t].message = Msg("Already exists", 0)}

\* C1: the report returned by parallel_upload has total = N and
\* success + already_exists + errors = N, for every list, N = 0 included;
\* with the empty list the call returns (it is not stuck) and the report is
\* all zero.
C1_ReportSumsToN ==
    /\ mainpc = "report" =>
        /\ report.total = Len(file_list)
        /\ report.success + report.already_exists + report.errors = report.total
        /\ report.success >= 0 /\ report.already_exists >= 0 /\ report.errors >= 0
        /\ file_list = <<>> =>
            /\ report.success = 0 /\ report.already_exists = 0
            /\ report.errors = 0 /\ report.error_details = <<>>
    /\ (mainpc = "collect" /\ file_list = <<>>) => ENABLED Return

C1_Witness ==
    /\ mainpc = "report"
    /\ report.total = 2
    /\ report.errors = 1
    /\ report.already_exists = 1

\* C2: a task whose create-request is answered 409 returns (True, "Already
\* exists") after exactly one request and no backoff, and the tallying loop
\* counts it under already_exists, never under errors.
C2_ConflictIsSuccess ==
    /\ \A t \in DOMAIN pc :
        (Answered(t) /\ EveryAnswer(t, Http(409))) =>
            /\ Done(t)
            /\ result[t].success
            /\ result[t].message = Msg("Already exists", 0)
            /\ posts[t] = 1
            /\ sleeps[t] = 0
    /\ mainpc = "report" =>
        /\ report.already_exists = Cardinality(Conflicts)
        /\ report.errors = Cardinality(Failures)
        /\ Conflicts \cap Failures = {}

C2_Witness ==
    /\ mainpc = "report"
    /\ \E t \in DOMAIN pc : responses[t] = <<Http(409)>> /\ pc[t] = "consumed"

\* C3: with budget R >= 1, a task answered 5xx on every attempt makes exactly
\* R attempts and is then Failed with the reason "Max retries exceeded",
\* not the HTTP status of its last attempt.
C3_ExhaustionReason ==
    \A t \in DOMAIN pc :
        (retries >= 1 /\ Done(t) /\ Answered(t)
            /\ \A i \in DOMAIN responses[t] : Is5xx(responses[t][i])) =>
            /\ posts[t] = retries
            /\ ~result[t].success
            /\ result[t].message = Msg("Max retries exceeded", 0)

\* C4: a task whose create-request is answered 400 (any 4xx but 409) is
\* Failed after that first attempt whatever the budget: one request, no
\* backoff.
C4_ClientErrorNotRetried ==
    /\ \A t \in DOMAIN pc :
        (Answered(t) /\ Is4xxNot409(responses[t][1])) =>
            /\ Done(t)
            /\ ~result[t].success
            /\ result[t].message = Msg("HTTP error", responses[t][1].status)
            /\ posts[t] = 1
            /\ sleeps[t] = 0
            /\ Len(responses[t]) = 1
    /\ \A s \in (400..499) \ {409}, b \in 1..MaxBudget, a \in 0..(MaxBudget - 1) :
        a < b =>
            LET c == Classify(1, Http(s), a, b) IN
            ~c.retry /\ ~c.value.success

C4_Witness ==
    \E t \in DOMAIN pc :
        /\ responses[t] = <<Http(400)>>
        /\ retries = MaxBudget
        /\ pc[t] = "returned"

\* C5: when the probe reports unreachable the run ends at once with exit
\* status 1: get_json_files is not called, no task exists, no create-request
\* is issued.
C5_UnreachableAborts ==
    (gets > 0 /\ ~available) =>
        /\ mainpc = "exit"
        /\ exit_code = 1
        /\ ~listed
        /\ file_list = <<>>
        /\ pc = <<>>
        /\ posts = <<>>
        /\ report = NoReport

C5_Witness == run = 2 /\ gets = 1 /\ ~available /\ mainpc = "exit"

\* C6: at no time are more than max_workers create-requests outstanding at
\* the remote store, whatever the number of tasks, the responses and the
\* retries.
C6_AtMostWInFlight == Cardinality(InFlight) <= max_workers

C6_Witness ==
    /\ Cardinality(InFlight) = max_workers
    /\ \E t \in DOMAIN pc : pc[t] = "queued"
    /\ \E t \in DOMAIN pc : pc[t] = "request" /\ sleeps[t] > 0

\* the store answered none of the run's requests with a transient fault
NoFaults ==
    \A t \in DOMAIN responses :
        \A i \in DOMAIN responses[t] : responses[t][i] \notin TransientFaults

\* C7: a later run over the same documents, all of which the store held when
\* the run began, against a store that answers 409 for every id it holds (no
\* transient fault in the run), reports Created = 0, AlreadyExists = N and
\* Failed = 0.
C7_SecondRunAllExist ==
    (run >= 2 /\ all_existed /\ report # NoReport /\ NoFaults) =>
        /\ report.total = Cardinality(directory)
        /\ report.success = 0
        /\ report.already_exists = report.total
        /\ report.errors = 0
        /\ report.error_details = <<>>

C7_Witness ==
    /\ run = 2
    /\ all_existed
    /\ NoFaults
    /\ mainpc = "report"
    /\ report.total = 2
    /\ posts = <<1, 1>>

\* C8: every submitted task returns one outcome and is tallied exactly once,
\* duplicates of a file included: the counters add up to the number of
\* outcomes consumed, the pool ends only with every task tallied, and while
\* it runs a task that failed never takes away the next step of another task.
C8_OneOutcomeEach ==
    /\ \A t \in DOMAIN pc :
        /\ tallied[t] = (IF pc[t] = "consumed" THEN 1 ELSE 0)
        /\ Done(t) <=> result[t] # None
        /\ Done(t) => result[t].file_path = file_list[t]
    /\ pc # <<>> =>
        success_count + already_exists_count + error_count
            = Cardinality({t \in DOMAIN pc : pc[t] = "consumed"})
    /\ mainpc \notin {"upload", "collect"} =>
        /\ DOMAIN pc = DOMAIN file_list
        /\ \A t \in DOMAIN pc : tallied[t] = 1
        /\ report # NoReport
    /\ mainpc = "collect" =>
        \A t \in DOMAIN pc :
            /\ pc[t] = "request" => \E r \in Responses : ENABLED Respond(t, r)
            /\ pc[t] = "sleep" => ENABLED WakeUp(t)
            /\ pc[t] = "returned" => ENABLED Consume(t)
            /\ (HeadOfQueue(t) /\ Running = {}) => ENABLED Start(t)

C8_Witness ==
    /\ mainpc = "report"
    /\ Len(file_list) = 2
    /\ file_list[1] = file_list[2]
    /\ ~result[1].success
    /\ result[2].success
    /\ error_count = 1

\* C9: a task whose file cannot be read or parsed is Failed with the reason
\* "Failed to load entity data", whatever the budget: no create-request, no
\* backoff, no retry.
C9_LoadErrorIsFinal ==
    \A t \in DOMAIN pc :
        (content[file_list[t]] = "broken" /\ pc[t] # "queued") =>
            /\ Done(t)
            /\ ~result[t].success
            /\ result[t].message = Msg("Failed to load entity data", 0)
            /\ posts[t] = 0
            /\ sleeps[t] = 0
            /\ attempt[t] = 0
            /\ responses[t] = <<>>

C9_Witness ==
    \E t \in DOMAIN pc :
        /\ content[file_list[t]] = "broken"
        /\ pc[t] = "returned"
        /\ retries = MaxBudget

\* C10: a connection error is transient: with attempts left the task sleeps
\* and then sends the next request; when every attempt of a budget R >= 1
\* ends in a connection error the task has made exactly R attempts and is
\* Failed with the reason "Max retries exceeded".
C10_ConnectionErrorExhaustion ==
    \A t \in DOMAIN pc :
        /\ (pc[t] = "sleep" /\ responses[t][Len(responses[t])] = URLError) =>
            /\ Len(responses[t]) < retries
            /\ ENABLED WakeUp(t)
        /\ (retries >= 1 /\ Done(t) /\ Answered(t) /\ EveryAnswer(t, URLError)) =>
            /\ posts[t] = retries
            /\ sleeps[t] = retries - 1
            /\ ~result[t].success
            /\ result[t].message = Msg("Max retries exceeded", 0)

\* the category of a finished task as its own file and its own responses
\* give it: nothing of another task, nothing of the order of completions
Category(t) ==
    IF content[file_list[t]] # "object" THEN "failed"
    ELSE IF responses[t] = <<>> THEN "failed"
    ELSE LET last == responses[t][Len(responses[t])] IN
         IF last = Http(201) THEN "created"
         ELSE IF last = Http(409) THEN "exists"
         ELSE "failed"

CountOf(cat, S) == Cardinality({t \in S : Category(t) = cat})
Consumed == {t \in DOMAIN pc : pc[t] = "consumed"}

\* C11: the counts do not depend on the order in which completions arrive:
\* at every moment of the loop and in the report they are the numbers of
\* tasks of each category among the tasks consumed, whatever the order.
C11_CountsIgnoreOrder ==
    /\ pc # <<>> =>
        /\ success_count = CountOf("created", Consumed)
        /\ already_exists_count = CountOf("exists", Consumed)
        /\ error_count = CountOf("failed", Consumed)
    /\ mainpc = "report" =>
        /\ report.total = Len(file_list)
        /\ report.success = CountOf("created", DOMAIN file_list)
        /\ report.already_exists = CountOf("exists", DOMAIN file_list)
        /\ report.errors = CountOf("failed", DOMAIN file_list)

\* the second task was consumed before the first, one succeeded and one
\* failed after its retry
C11_Witness ==
    /\ mainpc = "collect"
    /\ Len(file_list) = 2
    /\ pc[2] = "consumed"
    /\ pc[1] = "returned"
    /\ Category(2) = "failed" /\ Len(responses[2]) = 2
    /\ Category(1) = "created"

\* C12: the exit status is 0 whenever the probe succeeded, the task list was
\* not empty and the pool ran to completion, however many tasks failed; it
\* is non-zero only when the probe failed or the list was empty.
C12_ExitStatus ==
    mainpc = "exit" =>
        /\ (available /\ file_list # <<>> /\ report # NoReport) => exit_code = 0
        /\ exit_code # 0 => (~available \/ file_list = <<>>)

\* C20: the summary never fails on the throughput: with a zero elapsed time
\* it ends normally and prints no rate, otherwise the rate printed is
\* total / elapsed.
C20_ThroughputNeverFails ==
    (mainpc = "exit" /\ report # NoReport) =>
        /\ exit_code = 0
        /\ elapsed_time = 0 => rate = -1
        /\ elapsed_time > 0 => rate = (100 * report.total) \div elapsed_time

\* C13: check_orion_availability sends one GET /version per run and says
\* reachable only for a 200 answer it could decode; another status, a
\* network error or an exception while reading the answer gives the verdict
\* unreachable, on which main exits with status 1.
C13_ProbeVerdict ==
    /\ gets <= 1
    /\ (mainpc # "probe" /\ run >= 1 /\ probed # "none") => gets = 1
    /\ (mainpc \in {"enumerate", "upload", "collect", "report"}) => gets = 1
    /\ gets = 1 <=> probed # "none"
    /\ available => probed = "200 json"
    /\ probed \in {"200 not json", "other status", "network error"} =>
        /\ ~available
        /\ mainpc = "exit"
        /\ exit_code = 1

C13_Witness == probed = "200 not json" /\ gets = 1 /\ mainpc = "exit"

Transient(r) == Is5xx(r) \/ r = URLError

\* C14: whatever the answers to a task with budget R, a 5xx or a connection
\* error on an attempt that is not the last puts the task to sleep and the
\* sleep is followed by the next attempt; the first answer that is not
\* transient ends the task: 201 gives Created, 409 gives Already exists,
\* another 4xx a failure, whatever transient failures came before it.
C14_FirstFinalAnswerDecides ==
    \A t \in DOMAIN pc :
        LET n == Len(responses[t]) IN
        /\ n <= retries
        /\ \A i \in 1..(n - 1) : Transient(responses[t][i])
        /\ pc[t] \in {"request", "sleep"} =>
               \A i \in 1..n : Transient(responses[t][i])
        /\ pc[t] = "request" => posts[t] = n + 1 /\ sleeps[t] = n
        /\ pc[t] = "sleep" =>
            /\ n < retries
            /\ posts[t] = n /\ sleeps[t] = n
            /\ ENABLED WakeUp(t)
        /\ (Done(t) /\ Answered(t)) =>
            /\ posts[t] = n /\ sleeps[t] = n - 1
            /\ Transient(responses[t][n]) => n = retries /\ ~result[t].success
            /\ responses[t][n] = Http(201) =>
                   result[t].success /\ result[t].message = Msg("Created", 0)
            /\ responses[t][n] = Http(409) =>
                   result[t].success /\ result[t].message = Msg("Already exists", 0)
            /\ Is4xxNot409(responses[t][n]) =>
                /\ ~result[t].success
                /\ result[t].message = Msg("HTTP error", responses[t][n].status)

C14_Witness ==
    /\ retries = 3
    /\ pc = <<"returned">>
    /\ responses[1] = <<Http(503), URLError, Http(201)>>
    /\ result[1].message = Msg("Created", 0)

\* the position of the first answer that is not transient, Len + 1 if none
FirstFinal(s) ==
    IF \E i \in DOMAIN s : ~Transient(s[i])
    THEN CHOOSE i \in DOMAIN s :
             ~Transient(s[i]) /\ \A j \in 1..(i - 1) : Transient(s[j])
    ELSE Len(s) + 1

\* C15: no task ever sends more create-requests than the retry budget, and
\* the number of requests of a task is a function of the answers to its own
\* requests: one per answer received, and when the task is over, the
\* position of its first answer that is not transient, or the budget.
C15_RequestsWithinBudget ==
    \A t \in DOMAIN pc :
        /\ posts[t] <= retries
        /\ attempt[t] < retries \/ retries = 0
        /\ posts[t] = Len(responses[t]) + (IF pc[t] = "request" THEN 1 ELSE 0)
        /\ attempt[t] = sleeps[t] - (IF pc[t] = "sleep" THEN 1 ELSE 0)
        /\ (Done(t) /\ Answered(t)) =>
               posts[t] = Min(retries, FirstFinal(responses[t]))

C15_Witness ==
    /\ DOMAIN pc = 1..2
    /\ Done(1) /\ Done(2)
    /\ posts[1] = retries /\ Transient(responses[1][1])
    /\ posts[2] = 1 /\ responses[2] = <<Http(201)>>

TallySum == success_count + already_exists_count + error_count

\* C16: only the loop over as_completed changes the tallies: a step of a
\* worker thread leaves them alone, and the sum of the three counters is the
\* number of outcomes consumed so far, which goes up by exactly one with
\* each completion consumed, from 0 to N in the report.
C16_SingleConsumerTallies ==
    /\ [](/\ TallySum = Cardinality(Consumed)
          /\ TallySum <= Len(file_list)
          /\ \A t \in DOMAIN tallied :
                 tallied[t] = IF pc[t] = "consumed" THEN 1 ELSE 0
          /\ mainpc = "report" => TallySum = Len(file_list))
    /\ [][/\ TallySum' \in {TallySum, TallySum + 1}
          /\ (TallySum' = TallySum + 1) <=>
                 \E t \in DOMAIN pc :
                     pc[t] = "returned" /\ pc'[t] = "consumed"
          /\ (\E t \in DOMAIN pc :
                  pc[t] \in {"queued", "request", "sleep"} /\ pc'[t] # pc[t])
                 => UNCHANGED tallyVars]_vars

C16_Witness ==
    /\ DOMAIN pc = 1..2
    /\ mainpc = "collect"
    /\ pc[1] = "request"
    /\ pc[2] = "consumed"
    /\ TallySum = 1

\* the pair appended for a failed task
ErrorPair(t) == <<entity_id(file_list[t]), result[t].message>>

\* C17: error_details holds one (id, reason) pair per failure, appended when
\* the failure is consumed, so that its length is error_count and its order
\* the order of arrival; every pair is also logged; the summary shows the
\* first min(5, error_count) pairs and no more.
C17_ErrorListAndSample ==
    /\ [](/\ Len(error_details) = error_count
          /\ logged = error_details
          /\ error_count = Cardinality({t \in Consumed : ~result[t].success})
          /\ mainpc = "report" => report.error_details = error_details
          /\ (mainpc = "exit" /\ report # NoReport) =>
              /\ Len(sample) = Min(SAMPLE_SIZE, report.errors)
              /\ sample = SubSeq(error_details, 1, Len(sample))
              /\ Len(logged) = report.errors)
    /\ [][\A t \in DOMAIN pc :
              (pc[t] = "returned" /\ pc'[t] = "consumed") =>
                  IF result[t].success
                  THEN UNCHANGED <<error_details, logged>>
                  ELSE /\ error_details' = Append(error_details, ErrorPair(t))
                       /\ logged' = Append(logged, ErrorPair(t))]_vars

C17_Witness ==
    /\ mainpc = "exit"
    /\ error_count = 6
    /\ Len(sample) = 5
    /\ Len(logged) = 6
    /\ sample = SubSeq(error_details, 1, 5)
    /\ error_details[1][1] # 1

\* C18: for every task list and every number of workers from 1 up, when
\* threads keep running and every request is answered or fails, every task
\* ends with an outcome, every outcome is consumed and parallel_upload
\* returns its report.
C18_RunTerminates ==
    <>(/\ mainpc = "report"
       /\ report # NoReport
       /\ DOMAIN pc = DOMAIN file_list
       /\ \A t \in DOMAIN pc : pc[t] = "consumed" /\ result[t] # None)

C18_Witness ==
    /\ mainpc = "report"
    /\ max_workers = 1
    /\ DOMAIN pc = 1..2
    /\ sleeps[1] = 1 /\ sleeps[2] = 1

\* C19: once the user interrupt has reached the consuming thread, a task
\* still in the queue is never started and sends no request, and the tasks
\* in flight have ended with an outcome when the process exits.
C19_CancelStopsNewAttempts ==
    [][/\ mainpc = "interrupted" =>
              \A t \in DOMAIN pc :
                  pc[t] = "queued" => (pc'[t] = "queued" /\ posts'[t] = 0)
       /\ (mainpc = "interrupted" /\ mainpc' = "exit") =>
              \A t \in DOMAIN pc : pc[t] \in {"queued", "returned", "consumed"}]_vars

\* C21: a document that can be read and parses as JSON, an empty object or
\* another empty value included, is sent to the store at least once (given a
\* budget of one attempt or more); only a document that cannot be read or
\* parsed ends as "Failed to load entity data".
C21_ParseableIsUploaded ==
    \A t \in DOMAIN pc :
        pc[t] # "queued" =>
            /\ (content[file_list[t]] \in {"object", "empty"} /\ retries >= 1)
                   => posts[t] >= 1
            /\ (Done(t) /\ result[t].message = Msg("Failed to load entity data", 0))
                   => content[file_list[t]] = "broken"

\* the tasks that have started and have no outcome yet
Busy == {t \in DOMAIN pc : pc[t] \in {"request", "sleep"}}

\* C22: a task sleeping between two attempts keeps its worker: the tasks
\* that are attempting or sleeping are never more than max_workers, no
\* queued task can start while they are max_workers, and a sleeping task
\* holds back no task that runs on another worker: every request in flight
\* can be answered and every sleep can end.
C22_SleepKeepsWorker ==
    /\ Cardinality(Busy) <= max_workers
    /\ Cardinality(Busy) = max_workers =>
           \A t \in DOMAIN pc : pc[t] = "queued" => ~ENABLED Start(t)
    /\ \A t \in DOMAIN pc :
           /\ pc[t] = "request" => \E r \in Responses : ENABLED Respond(t, r)
           /\ pc[t] = "sleep" => ENABLED WakeUp(t)

C22_Witness ==
    /\ max_workers = 1
    /\ pc = <<"sleep", "queued">>
    /\ ~ENABLED Start(2)

\* the files of `all` at the positions (counted from 0) in the interval P
Picked(all, P) ==
    IF P = {}
    THEN <<>>
    ELSE LET lo == CHOOSE i \in P : \A j \in P : i <= j
             hi == CHOOSE i \in P : \A j \in P : j <= i
         IN SubSeq(all, lo + 1, hi + 1)

\* C23: the task list is a contiguous slice of the sorted listing taken by
\* the one call of get_json_files: with a start and an end the files at the
\* positions start <= i < end (a negative bound counting from the end, and
\* max ignored); otherwise, with a max other than 0, the first max files;
\* otherwise every file.  A start or an end given alone changes nothing.
C23_TaskListIsSlice ==
    listed =>
        LET all == Sorted(directory)
            n == Len(all)
            At(i) == IF i < 0 THEN i + n ELSE i
        IN  IF start_idx # NotGiven /\ end_idx # NotGiven
            THEN file_list =
                     Picked(all, {i \in 0..(n - 1) :
                                      At(start_idx[1]) <= i /\ i < At(end_idx[1])})
            ELSE IF max_files # NotGiven /\ max_files[1] # 0
            THEN /\ Len(file_list) = Min(max_files[1], n)
                 /\ \A k \in DOMAIN file_list : file_list[k] = all[k]
            ELSE file_list = all
=============================================================================
